---- MODULE Spec2Model ----
(***************************************************************************)
(* Model of the Atrius Maps Next.js backend: the module-level map handle   *)
(* cache (src/lib/mapService.js), the five GET route handlers              *)
(* (src/app/api/**, src/unnamed/part_000) and the result normalization     *)
(* they share.  A request is a coroutine that suspends at the two awaits   *)
(* that leave the process: Init.newMap(config) and the SDK call.           *)
(***************************************************************************)
EXTENDS Integers, Sequences, FiniteSets, Bags, TLC

VARIABLES
    mapInstance,   \* mapService.js:3   0 = null, n > 0 = the n-th handle object
    newMapCalls,   \* number of Init.newMap(config) invocations so far
    constructed,   \* number of Init.newMap promises that resolved
    cacheWrites,   \* number of assignments to mapInstance
    firstStored,   \* the handle first assigned to mapInstance (0 = none yet)
    req,           \* bag of the requests in flight: position and locals of each
    resp,          \* the response emitted by the last step (NoResp if none)
    done,          \* the request that the last step finished (with its cause)
    raw,           \* input of the normalization, for the pure-function runs
    norm,          \* outcome of the normalization on raw
    poisState,     \* page.js:6   the elements of the pois array
    loading,       \* page.js:7
    errorState,    \* page.js:8   error: null or the error text
    mounted,       \* whether the effect of page.js:10-12 has run
    fetches,       \* bag of the fetchPOIs calls in flight, by the await they are at
    via,           \* what started the latest fetchPOIs call
    outcome        \* what the fetchPOIs call that the last step completed received

pageVars == <<poisState, loading, errorState, mounted, fetches, via, outcome>>

vars == <<mapInstance, newMapCalls, constructed, cacheWrites, firstStored,
          req, resp, done, raw, norm, pageVars>>

(***************************************************************************)
(* Bounds                                                                  *)
(***************************************************************************)
MaxReq == 2        \* requests in flight at a time
MaxNewMap == 2     \* cap on the number of Init.newMap invocations
MaxLen == 2        \* longest array / largest mapping returned by the SDK
MaxFetch == 2      \* cap on the fetchPOIs calls in flight at a time

(***************************************************************************)
(* JavaScript values, one level deep.  An array has its elements in vs; a  *)
(* plain object has its own keys in insertion order in ks and the values   *)
(* at the same positions in vs; a scalar has its text in s.                *)
(***************************************************************************)
Elems == {"p1", "p2"}
PropertyKeys == {"0", "1", "2", "a"}

JsArray(elems) == [t |-> "array", ks |-> <<>>, vs |-> elems, s |-> ""]
JsObject(keys, vals) == [t |-> "object", ks |-> keys, vs |-> vals, s |-> ""]
JsNull == [t |-> "null", ks |-> <<>>, vs |-> <<>>, s |-> ""]
JsUndefined == [t |-> "undefined", ks |-> <<>>, vs |-> <<>>, s |-> ""]
JsNumber(n) == [t |-> "number", ks |-> <<>>, vs |-> <<>>, s |-> n]
JsString(str) == [t |-> "string", ks |-> <<>>, vs |-> <<>>, s |-> str]
JsBoolean(b) == [t |-> "boolean", ks |-> <<>>, vs |-> <<>>, s |-> b]

SeqUpTo(S, n) == UNION {[1..k -> S] : k \in 0..n}
IsInjective(f) == \A i, j \in DOMAIN f : f[i] = f[j] => i = j

Scalars ==
    {JsNull, JsUndefined, JsNumber("0"), JsNumber("5"), JsString(""),
     JsString("s"), JsBoolean("false"), JsBoolean("true")}
Arrays == {JsArray(e) : e \in SeqUpTo(Elems, MaxLen)}
Objects ==
    {JsObject(k, v) : <<k, v>> \in
        {kv \in SeqUpTo(PropertyKeys, MaxLen) \X SeqUpTo(Elems, MaxLen) :
            Len(kv[1]) = Len(kv[2]) /\ IsInjective(kv[1])}}
RawValues == Scalars \cup Arrays \cup Objects

\* ToBoolean, as applied by `if (x)`, `!x` and `x && ...`
Truthy(v) ==
    CASE v.t \in {"array", "object"} -> TRUE
      [] v.t \in {"null", "undefined"} -> FALSE
      [] v.t = "number" -> v.s # "0"
      [] v.t = "string" -> v.s # ""
      [] v.t = "boolean" -> v.s = "true"

\* the typeof operator (typeof null is "object")
TypeOf(v) ==
    CASE v.t \in {"array", "object", "null"} -> "object"
      [] OTHER -> v.t

IsArray(v) == v.t = "array"

\* The array index a property key denotes, or -1 for any other key.
ToIndex(k) ==
    CASE k = "0" -> 0
      [] k = "1" -> 1
      [] k = "2" -> 2
      [] OTHER -> -1
Positions(ks) == [i \in 1..Len(ks) |-> i]

RECURSIVE IndexPos(_, _)
\* positions of the keys of ks whose index is in todo, by ascending index
IndexPos(ks, todo) ==
    IF todo = {} THEN <<>>
    ELSE LET n == CHOOSE m \in todo : \A o \in todo : m <= o
         IN SelectSeq(Positions(ks), LAMBDA i : ToIndex(ks[i]) = n)
                \o IndexPos(ks, todo \ {n})

\* OrdinaryOwnPropertyKeys: integer indices ascending, then strings as inserted
OwnKeyOrder(ks) ==
    IndexPos(ks, {ToIndex(ks[i]) : i \in 1..Len(ks)} \ {-1})
        \o SelectSeq(Positions(ks), LAMBDA i : ToIndex(ks[i]) < 0)

ObjectValues_insertion(v) == [threw |-> FALSE, vs |-> v.vs]
\* Object.values(v): throws a TypeError on null and undefined
ObjectValues(v) ==
    IF v.t \in {"null", "undefined"} THEN [threw |-> TRUE, vs |-> <<>>]
    ELSE LET ord == OwnKeyOrder(v.ks)
         IN [threw |-> FALSE, vs |-> [i \in 1..Len(ord) |-> v.vs[ord[i]]]]

\* pois/route.js:17-26
NormalizePois(pois) ==
    IF IsArray(pois) THEN [threw |-> FALSE, vs |-> pois.vs]
    ELSE IF Truthy(pois) /\ TypeOf(pois) = "object" THEN ObjectValues(pois)
    ELSE [threw |-> FALSE, vs |-> <<>>]

\* search/route.js:20-27
NormalizeSearch(results) ==
    IF IsArray(results) THEN [threw |-> FALSE, vs |-> results.vs]
    ELSE IF Truthy(results) /\ TypeOf(results) = "object" THEN ObjectValues(results)
    ELSE [threw |-> FALSE, vs |-> <<>>]

NormalizeStructures_nullObject(structures) ==
    IF IsArray(structures) THEN [threw |-> FALSE, vs |-> structures.vs]
    ELSE IF TypeOf(structures) = "object" THEN ObjectValues(structures)
    ELSE [threw |-> FALSE, vs |-> <<>>]
\* structures/route.js:10-17
NormalizeStructures(structures) ==
    IF IsArray(structures) THEN [threw |-> FALSE, vs |-> structures.vs]
    ELSE IF Truthy(structures) /\ TypeOf(structures) = "object"
         THEN ObjectValues(structures)
    ELSE [threw |-> FALSE, vs |-> <<>>]

(***************************************************************************)
(* parseInt(id, 10) on a string given as its sequence of characters        *)
(***************************************************************************)
DigitVal(c) ==
    CASE c = "0" -> 0 [] c = "1" -> 1 [] c = "2" -> 2 [] c = "3" -> 3
      [] c = "4" -> 4 [] c = "5" -> 5 [] c = "6" -> 6 [] c = "7" -> 7
      [] c = "8" -> 8 [] c = "9" -> 9 [] OTHER -> -1

IsDigit(c) == DigitVal(c) >= 0

RECURSIVE TrimStart(_)
TrimStart(str) ==
    IF str # <<>> /\ Head(str) = " " THEN TrimStart(Tail(str)) ELSE str

RECURSIVE DigitPrefix(_)
DigitPrefix(str) ==
    IF str # <<>> /\ IsDigit(Head(str))
    THEN <<Head(str)>> \o DigitPrefix(Tail(str))
    ELSE <<>>

RECURSIVE DigitsValue(_, _)
DigitsValue(digits, acc) ==
    IF digits = <<>> THEN acc
    ELSE DigitsValue(Tail(digits), acc * 10 + DigitVal(Head(digits)))

\* part_000:8   leading white space, an optional sign, then the longest run of
\* digits; whatever follows the digits is ignored; NaN when there is no digit
ParseInt(str) ==
    LET t == TrimStart(str)
        signed == t # <<>> /\ Head(t) \in {"-", "+"}
        body == IF signed THEN Tail(t) ELSE t
        digits == DigitPrefix(body)
    IN IF digits = <<>> THEN [nan |-> TRUE, n |-> 0]
       ELSE [nan |-> FALSE,
             n |-> IF signed /\ Head(t) = "-" THEN 0 - DigitsValue(digits, 0)
                   ELSE DigitsValue(digits, 0)]

\* part_000:10
IsNaN(num) == num.nan

(***************************************************************************)
(* Response envelopes.  fields is the set of keys present in the JSON      *)
(* body; a key that is absent keeps a placeholder value in the record.     *)
(***************************************************************************)
Body(fields, success, data, count, query, error, message) ==
    [fields |-> fields, success |-> success, data |-> data, count |-> count,
     query |-> query, error |-> error, message |-> message]

\* NextResponse.json serializes with JSON.stringify, which leaves out a key
\* whose value is undefined
Json(status, body) ==
    [status |-> status,
     body |-> [body EXCEPT !.fields =
                  {f \in body.fields :
                      /\ ~(f = "data" /\ body.data.t = "undefined")
                      /\ ~(f = "query" /\ body.query.t = "undefined")}]]

NoResp == [status |-> 0, body |-> Body({}, FALSE, JsUndefined, 0, JsUndefined, "", "")]

\* pois/route.js:29-33
PoisOk(poisArray) ==
    Json(200, Body({"success", "data", "count"}, TRUE, JsArray(poisArray),
                   Len(poisArray), JsUndefined, "", ""))

PoisErr_noMessage(message) ==
    Json(500, Body({"success", "error"}, FALSE, JsUndefined, 0, JsUndefined,
                   "Failed to fetch POIs", ""))
\* pois/route.js:37-44
PoisErr(message) ==
    Json(500, Body({"success", "error", "message"}, FALSE, JsUndefined, 0,
                   JsUndefined, "Failed to fetch POIs", message))

\* pois/route.js:55-58
VenueOk(venueData) ==
    Json(200, Body({"success", "data"}, TRUE, venueData, 0, JsUndefined, "", ""))

VenueErr_withData(message) ==
    Json(500, Body({"success", "error", "data"}, FALSE, JsNull, 0, JsUndefined,
                   message, ""))
\* pois/route.js:61-64
VenueErr(message) ==
    Json(500, Body({"success", "error"}, FALSE, JsUndefined, 0, JsUndefined,
                   message, ""))

\* search/route.js:9-12
SearchBadRequest ==
    Json(400, Body({"success", "error"}, FALSE, JsUndefined, 0, JsUndefined,
                   "Query parameter \"q\" is required", ""))

SearchOk_countOff(resultsArray, query) ==
    Json(200, Body({"success", "data", "count", "query"}, TRUE,
                   JsArray(resultsArray), Len(resultsArray) + 1, query, "", ""))
\* search/route.js:29-34
SearchOk(resultsArray, query) ==
    Json(200, Body({"success", "data", "count", "query"}, TRUE,
                   JsArray(resultsArray), Len(resultsArray), query, "", ""))

\* search/route.js:37-40
SearchErr(message) ==
    Json(500, Body({"success", "error"}, FALSE, JsUndefined, 0, JsUndefined,
                   message, ""))

\* structures/route.js:19-23
StructuresOk(structuresArray) ==
    Json(200, Body({"success", "data", "count"}, TRUE, JsArray(structuresArray),
                   Len(structuresArray), JsUndefined, "", ""))

\* structures/route.js:26-29
StructuresErr(message) ==
    Json(500, Body({"success", "error"}, FALSE, JsUndefined, 0, JsUndefined,
                   message, ""))

\* part_000:11-14
PoiBadRequest ==
    Json(400, Body({"success", "error"}, FALSE, JsUndefined, 0, JsUndefined,
                   "Invalid POI ID - must be a number", ""))

\* part_000:20-23
PoiOk(poi) ==
    Json(200, Body({"success", "data"}, TRUE, poi, 0, JsUndefined, "", ""))

\* part_000:26-29
PoiErr(message) ==
    Json(500, Body({"success", "error"}, FALSE, JsUndefined, 0, JsUndefined,
                   message, ""))

(***************************************************************************)
(* Inputs                                                                  *)
(***************************************************************************)
\* searchParams.get('q'): null when the parameter is missing, else its text
QSamples == {JsNull, JsString(""), JsString("cafe")}

\* the [id] path segment
IdSamples ==
    {<<"7">>, <<"1", "2", "a", "b", "c">>, <<"1", ".", "5">>, <<"a", "b", "c">>}

\* what an SDK call may resolve with
RawSamples ==
    {JsArray(<<>>), JsArray(<<"p1", "p2">>), JsObject(<<>>, <<>>),
     JsObject(<<"1", "0">>, <<"p1", "p2">>), JsNull, JsUndefined, JsNumber("5")}

\* error.message of what Init.newMap or an SDK call may reject with
Errors == {"invalid credentials", "network failure"}

TypeErrorMessage == "Cannot convert undefined or null to object"

(***************************************************************************)
(* Requests in flight                                                      *)
(***************************************************************************)
Request(pc, route, q, id, poiId, map) ==
    [pc |-> pc, route |-> route, q |-> q, id |-> id, poiId |-> poiId,
     map |-> map]

NoRequest == Request("none", "none", JsUndefined, <<>>, 0, 0)

\* the request that finished, why it finished, and what its await delivered
Finished(request, cause, err, result) ==
    [route |-> request.route, q |-> request.q, id |-> request.id,
     poiId |-> request.poiId, map |-> request.map, cause |-> cause,
     err |-> err, result |-> result]

NoDone == Finished(NoRequest, "none", "", JsUndefined)
NoNorm == [by |-> "none", out |-> [threw |-> FALSE, vs |-> <<>>]]

Suspend(request) == req' = req (+) SetToBag({request})
Resume(request) == req' = req (-) SetToBag({request})
Replace(old, new) == req' = (req (-) SetToBag({old})) (+) SetToBag({new})
InFlight == BagToSet(req)
Accepting == BagCardinality(req) < MaxReq

\* what a completed fetchPOIs call received: fetch rejected ("network"),
\* response.json() rejected ("parse"), or the parsed body
Outcome(kind, body) == [kind |-> kind, body |-> body]
PageBody(success, data, err) == [success |-> success, data |-> data, error |-> err]
NoBody == PageBody(JsUndefined, JsUndefined, JsUndefined)
NoOutcome == Outcome("none", NoBody)

\* page.js:6-8   the useState initial values, before the effect has run
PageInit ==
    /\ poisState = <<>>
    /\ loading = TRUE
    /\ errorState = JsNull
    /\ mounted = FALSE
    /\ fetches = EmptyBag
    /\ via = "none"
    /\ outcome = NoOutcome

Init ==
    /\ mapInstance = 0
    /\ newMapCalls = 0
    /\ constructed = 0
    /\ cacheWrites = 0
    /\ firstStored = 0
    /\ req = EmptyBag
    /\ resp = NoResp
    /\ done = NoDone
    /\ raw = JsUndefined
    /\ norm = NoNorm
    /\ PageInit

(***************************************************************************)
(* getMapInstance, up to its await (mapService.js:5-23): a cached handle   *)
(* is returned at once and the handler goes on to its SDK call; otherwise  *)
(* Init.newMap(config) is invoked and the request suspends on it.          *)
(***************************************************************************)
GetMapInstance(request) ==
    IF mapInstance # 0
    THEN /\ Suspend([request EXCEPT !.pc = "awaitSdk", !.map = mapInstance])
         /\ UNCHANGED newMapCalls
    ELSE /\ newMapCalls < MaxNewMap
         /\ newMapCalls' = newMapCalls + 1
         /\ Suspend([request EXCEPT !.pc = "awaitNewMap"])

\* a handler that answers without suspending
Answer(response, finished) ==
    /\ resp' = response
    /\ done' = finished
    /\ UNCHANGED <<mapInstance, newMapCalls, constructed, cacheWrites,
                   firstStored, req, raw, norm, pageVars>>

\* a handler that reaches getMapInstance
Proceed(request) ==
    /\ GetMapInstance(request)
    /\ resp' = NoResp
    /\ done' = NoDone
    /\ UNCHANGED <<mapInstance, constructed, cacheWrites, firstStored, raw, norm, pageVars>>

\* pois/route.js:4-10
GET_pois ==
    /\ Accepting
    /\ Proceed(Request("start", "pois", JsUndefined, <<>>, 0, 0))

\* pois/route.js:50-53
GET_venue ==
    /\ Accepting
    /\ Proceed(Request("start", "venue", JsUndefined, <<>>, 0, 0))

\* structures/route.js:4-7
GET_structures ==
    /\ Accepting
    /\ Proceed(Request("start", "structures", JsUndefined, <<>>, 0, 0))

QueryMissing_nullOnly(query) == query.t = "null"
\* search/route.js:8   !query
QueryMissing(query) == ~Truthy(query)

\* search/route.js:4-17
GET_search ==
    /\ Accepting
    /\ \E query \in QSamples :
          LET request == Request("start", "search", query, <<>>, 0, 0)
          IN IF QueryMissing(query)
             THEN Answer(SearchBadRequest,
                         Finished(request, "validation", "", JsUndefined))
             ELSE Proceed(request)

\* part_000:4-19
GET_poi ==
    /\ Accepting
    /\ \E id \in IdSamples :
          LET poiId == ParseInt(id)
              request == Request("start", "poi", JsUndefined, id, poiId.n, 0)
          IN IF IsNaN(poiId)
             THEN Answer(PoiBadRequest,
                         Finished(request, "validation", "", JsUndefined))
             ELSE Proceed(request)

\* the catch block of each handler
ErrResponse(route, message) ==
    CASE route = "pois" -> PoisErr(message)
      [] route = "venue" -> VenueErr(message)
      [] route = "search" -> SearchErr(message)
      [] route = "structures" -> StructuresErr(message)
      [] route = "poi" -> PoiErr(message)

\* the rest of each try block, once the SDK call has resolved with result
OkResponse(request, result) ==
    CASE request.route = "pois" ->
            LET n == NormalizePois(result)
            IN IF n.threw THEN PoisErr(TypeErrorMessage) ELSE PoisOk(n.vs)
      [] request.route = "venue" -> VenueOk(result)
      [] request.route = "search" ->
            LET n == NormalizeSearch(result)
            IN IF n.threw THEN SearchErr(TypeErrorMessage)
               ELSE SearchOk(n.vs, request.q)
      [] request.route = "structures" ->
            LET n == NormalizeStructures(result)
            IN IF n.threw THEN StructuresErr(TypeErrorMessage)
               ELSE StructuresOk(n.vs)
      [] request.route = "poi" -> PoiOk(result)

\* mapService.js:23-25   Init.newMap resolved: the handle is stored and
\* returned, and the handler makes its SDK call
NewMapResolved ==
    \E request \in InFlight :
        /\ request.pc = "awaitNewMap"
        /\ mapInstance' = constructed + 1
        /\ constructed' = constructed + 1
        /\ cacheWrites' = cacheWrites + 1
        /\ firstStored' = IF firstStored = 0 THEN constructed + 1 ELSE firstStored
        /\ Replace(request,
                   [request EXCEPT !.pc = "awaitSdk", !.map = mapInstance'])
        /\ resp' = NoResp
        /\ done' = NoDone
        /\ UNCHANGED <<newMapCalls, raw, norm, pageVars>>

NewMapRejected_clearsCache ==
    \E request \in InFlight :
        /\ request.pc = "awaitNewMap"
        /\ \E e \in Errors :
              /\ resp' = ErrResponse(request.route, e)
              /\ done' = Finished(request, "init", e, JsUndefined)
        /\ Resume(request)
        /\ mapInstance' = 0
        /\ UNCHANGED <<newMapCalls, constructed, cacheWrites,
                       firstStored, raw, norm, pageVars>>
\* mapService.js:26-29   Init.newMap rejected: logged and rethrown, caught by
\* the handler
NewMapRejected ==
    \E request \in InFlight :
        /\ request.pc = "awaitNewMap"
        /\ \E e \in Errors :
              /\ resp' = ErrResponse(request.route, e)
              /\ done' = Finished(request, "init", e, JsUndefined)
        /\ Resume(request)
        /\ UNCHANGED <<mapInstance, newMapCalls, constructed, cacheWrites,
                       firstStored, raw, norm, pageVars>>

\* the SDK call resolved
SdkResolved ==
    \E request \in InFlight :
        /\ request.pc = "awaitSdk"
        /\ \E result \in RawSamples :
              /\ resp' = OkResponse(request, result)
              /\ done' = Finished(request, "ok", "", result)
        /\ Resume(request)
        /\ UNCHANGED <<mapInstance, newMapCalls, constructed, cacheWrites,
                       firstStored, raw, norm, pageVars>>

\* the SDK call rejected
SdkRejected ==
    \E request \in InFlight :
        /\ request.pc = "awaitSdk"
        /\ \E e \in Errors :
              /\ resp' = ErrResponse(request.route, e)
              /\ done' = Finished(request, "sdk", e, JsUndefined)
        /\ Resume(request)
        /\ UNCHANGED <<mapInstance, newMapCalls, constructed, cacheWrites,
                       firstStored, raw, norm, pageVars>>

Next ==
    \/ GET_pois
    \/ GET_venue
    \/ GET_structures
    \/ GET_search
    \/ GET_poi
    \/ NewMapResolved
    \/ NewMapRejected
    \/ SdkResolved
    \/ SdkRejected

Spec == Init /\ [][Next]_vars

(***************************************************************************)
(* The normalization as a pure function: every raw value within the bound  *)
(* is an input, and each route's copy of the code is applied to it.        *)
(***************************************************************************)
InitNorm ==
    /\ mapInstance = 0
    /\ newMapCalls = 0
    /\ constructed = 0
    /\ cacheWrites = 0
    /\ firstStored = 0
    /\ req = EmptyBag
    /\ resp = NoResp
    /\ done = NoDone
    /\ raw \in RawValues
    /\ norm = NoNorm
    /\ PageInit

Apply(by, out) ==
    /\ norm' = [by |-> by, out |-> out]
    /\ UNCHANGED <<mapInstance, newMapCalls, constructed, cacheWrites,
                   firstStored, req, resp, done, raw, pageVars>>

ApplyNormalizePois == Apply("pois", NormalizePois(raw))
ApplyNormalizeSearch == Apply("search", NormalizeSearch(raw))
ApplyNormalizeStructures == Apply("structures", NormalizeStructures(raw))

NextNorm ==
    \/ ApplyNormalizePois
    \/ ApplyNormalizeSearch
    \/ ApplyNormalizeStructures

SpecNorm == InitNorm /\ [][NextNorm]_vars

(***************************************************************************)
(* The client page (src/app/page.js): three pieces of state, one effect    *)
(* that runs once after the first render, and fetchPOIs, which suspends at *)
(* fetch('/api/pois') and at response.json().  State updates made in one   *)
(* turn of the event loop are rendered together.                           *)
(***************************************************************************)
serverVars == <<mapInstance, newMapCalls, constructed, cacheWrites,
                firstStored, req, resp, done, raw, norm>>

\* what response.json() may resolve with (besides null): the fields the page
\* reads; a body that is a number or a string reads as all three undefined
SuccessSamples == {JsBoolean("true"), JsBoolean("false"), JsUndefined}
DataSamples == Arrays \cup {JsObject(<<"0">>, <<"p1">>), JsNull, JsUndefined}
ErrorSamples == {JsUndefined, JsString(""), JsString("Failed to fetch POIs")}
PageBodies ==
    {PageBody(success, data, err) :
        success \in SuccessSamples, data \in DataSamples, err \in ErrorSamples}

Render_noLoadingBranch ==
    IF Truthy(errorState) THEN "error"
    ELSE IF Len(poisState) = 0 THEN "empty"
    ELSE "populated"
\* page.js:37-107   which of the four returns the component takes
Render ==
    IF loading THEN "loading"
    ELSE IF Truthy(errorState) THEN "error"
    ELSE IF Len(poisState) = 0 THEN "empty"
    ELSE "populated"

FetchPOIsBegin_keepError(trigger) ==
    /\ BagCardinality(fetches) < MaxFetch
    /\ loading' = TRUE
    /\ fetches' = fetches (+) SetToBag({"awaitFetch"})
    /\ via' = trigger
    /\ outcome' = NoOutcome
    /\ UNCHANGED <<poisState, errorState>>
\* page.js:14-19   fetchPOIs up to its first await
FetchPOIsBegin(trigger) ==
    /\ BagCardinality(fetches) < MaxFetch
    /\ loading' = TRUE
    /\ errorState' = JsNull
    /\ fetches' = fetches (+) SetToBag({"awaitFetch"})
    /\ via' = trigger
    /\ outcome' = NoOutcome
    /\ UNCHANGED poisState

\* page.js:10-12   the effect, once
Mount ==
    /\ ~mounted
    /\ mounted' = TRUE
    /\ FetchPOIsBegin("mount")
    /\ UNCHANGED serverVars

\* page.js:53-58   the Retry button, present in the error return only
ClickRetry ==
    /\ mounted
    /\ Render = "error"
    /\ FetchPOIsBegin("retry")
    /\ UNCHANGED <<mounted, serverVars>>

\* page.js:69-74   the Refresh button, present in the empty return only
ClickRefresh ==
    /\ mounted
    /\ Render = "empty"
    /\ FetchPOIsBegin("refresh")
    /\ UNCHANGED <<mounted, serverVars>>

\* page.js:20-34   the rest of fetchPOIs once the call at pc has delivered o:
\* the success branch, the else branch or the catch block, then finally
Settle(pc, o) ==
    /\ fetches' = fetches (-) SetToBag({pc})
    /\ outcome' = o
    /\ IF o.kind = "body"
       THEN IF Truthy(o.body.success)
            THEN /\ poisState' =
                        IF IsArray(o.body.data) THEN o.body.data.vs ELSE <<>>
                 /\ UNCHANGED errorState
            ELSE /\ errorState' =
                        IF Truthy(o.body.error) THEN o.body.error
                        ELSE JsString("Failed to fetch POIs")
                 /\ UNCHANGED poisState
       ELSE /\ errorState' = JsString("Network error: Failed to fetch POIs")
            /\ UNCHANGED poisState
    /\ loading' = FALSE
    /\ UNCHANGED <<mounted, via, serverVars>>

\* page.js:19   fetch resolved with a response: on to response.json()
FetchResolved ==
    /\ "awaitFetch" \in BagToSet(fetches)
    /\ fetches' = (fetches (-) SetToBag({"awaitFetch"})) (+) SetToBag({"awaitJson"})
    /\ outcome' = NoOutcome
    /\ UNCHANGED <<poisState, loading, errorState, mounted, via, serverVars>>

\* page.js:19   fetch rejected
FetchRejected ==
    /\ "awaitFetch" \in BagToSet(fetches)
    /\ Settle("awaitFetch", Outcome("network", NoBody))

\* page.js:20   response.json() resolved; reading data.success of null throws
JsonResolved ==
    /\ "awaitJson" \in BagToSet(fetches)
    /\ \E o \in {Outcome("body", b) : b \in PageBodies}
                    \cup {Outcome("null", NoBody)} :
          Settle("awaitJson", o)

\* page.js:20   response.json() rejected
JsonRejected ==
    /\ "awaitJson" \in BagToSet(fetches)
    /\ Settle("awaitJson", Outcome("parse", NoBody))

NextPage ==
    \/ Mount
    \/ ClickRetry
    \/ ClickRefresh
    \/ FetchResolved
    \/ FetchRejected
    \/ JsonResolved
    \/ JsonRejected

SpecPage == Init /\ [][NextPage]_vars

(***************************************************************************)
(* Properties                                                              *)
(***************************************************************************)
Fields == resp.body.fields

\* C1: once the cache has been populated, every getMapInstance call that
\* returns afterwards returns the handle that was stored first, so every
\* request that holds a handle holds that one.
C1_ReturnsFirstStored ==
    \A request \in InFlight :
        request.pc = "awaitSdk" => request.map = firstStored

\* C2: Init.newMap completes successfully at most once per process and the
\* cache is written at most once, whatever the interleaving of requests.
C2_AtMostOneConstruction == constructed <= 1 /\ cacheWrites <= 1

\* C3: when the construction fails, the caller gets the error (a 500
\* envelope with its message) and the cache is empty afterwards, so that the
\* next call constructs again.
C3_FailureLeavesCacheEmpty ==
    done.cause = "init" =>
        /\ resp.status = 500
        /\ ~resp.body.success
        /\ mapInstance = 0

\* C4: in every response envelope, success=true implies that error is absent
\* and success=false implies that data is absent.
C4_EnvelopeExclusive ==
    resp # NoResp =>
        /\ "success" \in Fields
        /\ resp.body.success => "error" \notin Fields
        /\ ~resp.body.success => "data" \notin Fields

C4_Witness ==
    /\ done.route = "venue"
    /\ done.cause = "sdk"
    /\ ~resp.body.success
    /\ "error" \in Fields

\* a base-10 integer: an optional sign, then digits and nothing else
IsBase10Integer(str) ==
    LET body == IF str # <<>> /\ Head(str) \in {"-", "+"} THEN Tail(str) ELSE str
    IN body # <<>> /\ \A i \in 1..Len(body) : IsDigit(body[i])

\* C5: a POI-detail request whose id is not a base-10 integer is answered
\* with 400, success:false and the fixed text, and never reaches
\* getMapInstance or the SDK (it is never in flight).
C5_NonIntegerRejected ==
    /\ \A request \in InFlight :
          request.route = "poi" => IsBase10Integer(request.id)
    /\ (done.route = "poi" /\ ~IsBase10Integer(done.id)) =>
          /\ resp.status = 400
          /\ ~resp.body.success
          /\ resp.body.error = "Invalid POI ID - must be a number"

QAbsent(q) == q = JsNull \/ q = JsString("")

\* C6: a search request whose q is missing or empty is answered with 400,
\* success:false and the fixed message; it never reaches getMapInstance or
\* the SDK (it is never in flight), and the step that answers it leaves the
\* cache, the constructor count and the requests in flight unchanged.
C6_MissingQueryRejected ==
    /\ [](\A request \in InFlight : request.route = "search" => ~QAbsent(request.q))
    /\ []((done.route = "search" /\ QAbsent(done.q)) =>
            /\ resp.status = 400
            /\ Fields = {"success", "error"}
            /\ ~resp.body.success
            /\ resp.body.error = "Query parameter \"q\" is required")
    /\ [][(done'.route = "search" /\ QAbsent(done'.q)) =>
            UNCHANGED <<mapInstance, newMapCalls, constructed, cacheWrites, req>>]_vars

C6_Witness ==
    /\ done.route = "search"
    /\ done.q = JsString("")
    /\ done.cause = "validation"
    /\ resp.status = 400

\* C7: an error raised by getMapInstance or by the SDK call is answered with
\* 500 and a success:false envelope carrying the error's message (in message
\* for the POI list, in error for the other routes), without data or count;
\* the step makes no further constructor or SDK call and ends the request.
C7_ErrorsSurfaceAs500 ==
    /\ [](done.cause \in {"init", "sdk"} =>
            /\ resp.status = 500
            /\ ~resp.body.success
            /\ "data" \notin Fields /\ "count" \notin Fields
            /\ IF done.route = "pois"
               THEN "message" \in Fields /\ resp.body.message = done.err
               ELSE "error" \in Fields /\ resp.body.error = done.err)
    /\ [][done'.cause \in {"init", "sdk"} =>
            /\ newMapCalls' = newMapCalls
            /\ mapInstance' = mapInstance
            /\ BagCardinality(req') = BagCardinality(req) - 1]_vars

C7_Witness ==
    /\ done.route = "pois"
    /\ done.cause = "init"
    /\ resp.status = 500
    /\ resp.body.message = done.err

\* b is a rearrangement of a
IsRearrangement(a, b) ==
    /\ Len(a) = Len(b)
    /\ \A e \in Elems :
          Cardinality({i \in 1..Len(a) : a[i] = e})
              = Cardinality({i \in 1..Len(b) : b[i] = e})

\* C8: the normalization never throws; an array comes back unchanged; null,
\* undefined and scalars give the empty sequence; any other object gives a
\* sequence of its values.  The three routes' copies agree.
C8_NormalizeTotal ==
    norm.by # "none" =>
        /\ ~norm.out.threw
        /\ raw.t = "array" => norm.out.vs = raw.vs
        /\ raw.t \in {"null", "undefined", "number", "string", "boolean"} =>
              norm.out.vs = <<>>
        /\ raw.t = "object" => IsRearrangement(raw.vs, norm.out.vs)

C8_Witness ==
    /\ norm.by = "structures"
    /\ raw.t = "object"
    /\ Len(raw.vs) = MaxLen
    /\ Len(norm.out.vs) = MaxLen

\* C9 (as stated): a mapping's values come out in insertion order.
C9_InsertionOrder ==
    (norm.by # "none" /\ raw.t = "object") => norm.out.vs = raw.vs

\* C9 (amended): a mapping's values come out in own-property order: the
\* values of integer-index keys first, by ascending index, then the values
\* of the other keys in insertion order.
C9_OwnPropertyOrder ==
    (norm.by # "none" /\ raw.t = "object") =>
        \E ord \in [1..Len(raw.ks) -> 1..Len(raw.ks)] :
            /\ IsInjective(ord)
            /\ Len(norm.out.vs) = Len(raw.ks)
            /\ \A i \in 1..Len(raw.ks) : norm.out.vs[i] = raw.vs[ord[i]]
            /\ \A i, j \in 1..Len(raw.ks) :
                  i < j =>
                     LET ki == ToIndex(raw.ks[ord[i]])
                         kj == ToIndex(raw.ks[ord[j]])
                     IN /\ (ki >= 0 /\ kj >= 0) => ki < kj
                        /\ (ki < 0 /\ kj < 0) => ord[i] < ord[j]
                        /\ ~(ki < 0 /\ kj >= 0)

C9_Witness ==
    /\ norm.by = "search"
    /\ raw = JsObject(<<"1", "0">>, <<"p1", "p2">>)
    /\ norm.out.vs = <<"p2", "p1">>

\* C10: in a success envelope of the POI-list, search and structures routes
\* count is the number of elements of data (0 for an empty mapping, null or
\* a scalar), and the search envelope's query is the request's q.
C10_CountMatchesData ==
    (resp.status = 200 /\ done.route \in {"pois", "search", "structures"}) =>
        /\ {"success", "data", "count"} \subseteq Fields
        /\ resp.body.data.t = "array"
        /\ resp.body.count = Len(resp.body.data.vs)
        /\ (done.result.t # "array" /\ done.result.vs = <<>>) => resp.body.count = 0
        /\ done.route = "search" =>
              "query" \in Fields /\ resp.body.query = done.q

C10_Witness ==
    /\ done.route = "search"
    /\ resp.status = 200
    /\ done.result = JsObject(<<>>, <<>>)
    /\ resp.body.count = 0
    /\ resp.body.data = JsArray(<<>>)
    /\ resp.body.query = JsString("cafe")

\* the render state the claim assigns to the outcome of a fetch
ExpectedRender(o) ==
    IF o.kind # "body" \/ ~Truthy(o.body.success) THEN "error"
    ELSE IF o.body.data.t # "array" \/ o.body.data.vs = <<>> THEN "empty"
    ELSE "populated"

\* C11: the page shows exactly one of loading, error, empty and populated,
\* and once a fetch has completed, whatever led to it (initial load, Retry
\* or Refresh), the state shown is decided by that fetch's outcome alone: a
\* failed fetch or a body without success gives error, success with empty or
\* non-array data gives empty, success with a non-empty array gives
\* populated.
C11_RenderFollowsOutcome ==
    /\ Render \in {"loading", "error", "empty", "populated"}
    /\ outcome # NoOutcome => Render = ExpectedRender(outcome)

C11_Witness ==
    /\ via = "retry"
    /\ outcome.kind = "body"
    /\ outcome.body.success = JsBoolean("true")
    /\ Len(outcome.body.data.vs) = MaxLen
    /\ Render = "populated"

\* C12: at most one fetch to /api/pois is in flight at any time, a fetch is
\* started only by the effect or by a button of the error or empty state,
\* never while loading; a fetch that resolves or rejects leaves loading
\* false; and no step leaves the populated state or starts a fetch from it.
C12_OneFetchPopulatedAbsorbing ==
    /\ [](BagCardinality(fetches) <= 1)
    /\ [](outcome # NoOutcome => ~loading)
    /\ [][BagCardinality(fetches') > BagCardinality(fetches) =>
            \/ ~mounted /\ via' = "mount"
            \/ ~loading /\ Render \in {"error", "empty"}]_vars
    /\ [][Render = "populated" =>
            UNCHANGED <<poisState, loading, errorState, fetches>>]_vars

C12_Witness ==
    /\ via = "mount"
    /\ outcome # NoOutcome
    /\ fetches = EmptyBag
    /\ ~loading
    /\ Render = "populated"

\* C13: the cache never goes back to empty; it changes only in a step in
\* which a construction completes successfully, and the step in which a
\* construction fails leaves it as it was, so a handle stored by another
\* attempt survives the failure.
C13_CacheFrame ==
    [][/\ mapInstance # 0 => mapInstance' # 0
       /\ mapInstance' # mapInstance =>
             /\ mapInstance' # 0
             /\ constructed' = constructed + 1
             /\ cacheWrites' = cacheWrites + 1
       /\ done'.cause = "init" => mapInstance' = mapInstance]_vars

C13_Witness ==
    /\ done.cause = "init"
    /\ mapInstance # 0
    /\ constructed = 1

====
